---- MODULE Spec2Model ----
(***************************************************************************)
(* Model of src/main.py: a sampler that stores system-health rows in the   *)
(* SQLite table system_log and prints the most recent rows.                *)
(*                                                                         *)
(* Two specifications are given:                                           *)
(*   Spec     one execution of the script (init_db, the sampling loop,     *)
(*            the report), with storage faults, probe failures and a       *)
(*            KeyboardInterrupt arriving at any point of main();           *)
(*   ApiSpec  the module's functions called in any order on any store.     *)
(*                                                                         *)
(* Abstractions: a timestamp and the three psutil percentages are read     *)
(* together from the small set Observations; printed lines are records     *)
(* holding the values that are formatted, not the formatted text.          *)
(***************************************************************************)
EXTENDS Integers, Sequences, FiniteSets, TLC

VARIABLES
    db,         \* log.db: [exists, rows, seq] (table system_log, sqlite_sequence)
    db0,        \* the store as it was when the process started (history)
    samples,    \* the configured number of samples (SAMPLES)
    pc,         \* position of the single thread of control
    i,          \* loop variable of main()
    entry,      \* the tuple assembled by get_system_info
    txn,        \* row pending in the open connection of insert_log
    out,        \* standard output, a sequence of lines
    trace,      \* calls made so far, in order (history)
    inserted,   \* ids committed by this run, in commit order (history)
    returned,   \* number of insert_log calls that have returned (history)
    probe,      \* outcome of the last ping subprocess (history)
    exc,        \* exception that ended the run, or "none"
    raisedAt,   \* position at which that exception was raised
    sigints,    \* number of KeyboardInterrupts delivered so far (history)
    result      \* rows fetched by the last query, with the call that made it

vars == <<db, db0, samples, pc, i, entry, txn, out, trace, inserted,
          returned, probe, exc, raisedAt, sigints, result>>

(***************************************************************************)
(* Program constants and bounds.                                           *)
(***************************************************************************)
SAMPLES == 5
ReportLimit == 5

MaxInitId == 2
MaxLimit == 3
MaxApiCalls == 2

NULL == "<NULL>"
NoEntry == [timestamp |-> NULL, cpu |-> 0, memory |-> 0, disk |-> 0, ping_status |-> NULL]
NoTxn == <<>>
NoStore == [exists |-> FALSE, rows |-> {}, seq |-> 0]
NoResult == [op |-> "none", limit |-> 0, rows |-> <<>>, error |-> "none", before |-> NoStore,
     prev |-> "none"]

Observations ==
    { [timestamp |-> "2025-01-01 00:00:00", cpu |-> 0,   memory |-> 50, disk |-> 100],
      [timestamp |-> "2025-01-01 00:00:10", cpu |-> 100, memory |-> 50, disk |-> 0] }

ProbeOutcomes == {"exit0", "nonzero", "timeout", "missing"}

Max(a, b) == IF a >= b THEN a ELSE b
Min(a, b) == IF a <= b THEN a ELSE b

SetMax(S) == IF S = {} THEN 0 ELSE CHOOSE m \in S : \A x \in S : x <= m

Ids(rows) == { r.id : r \in rows }

(***************************************************************************)
(* The store: table system_log of log.db (lines 25-34) and the             *)
(* sqlite_sequence entry that AUTOINCREMENT keeps for it.                  *)
(***************************************************************************)
Row(id, e) ==
    [id |-> id, timestamp |-> e.timestamp, cpu |-> e.cpu, memory |-> e.memory,
     disk |-> e.disk, ping_status |-> e.ping_status]

OldRow(id, p) ==
    [id |-> id, timestamp |-> "2024-12-31 23:59:59", cpu |-> 10, memory |-> 20,
     disk |-> 30, ping_status |-> p]

\* Tables holding one row per id of a set, each with a status drawn from P.
Tables(idset, P) ==
    { { OldRow(id, f[id]) : id \in idset } : f \in [idset -> P] }

\* Every store content within the bounds: no table, or a table with any rows
\* and any sqlite_sequence value.
Stores ==
    {NoStore} \cup
    { [exists |-> TRUE, rows |-> t, seq |-> q] :
        t \in UNION { Tables(S, {"UP", "DOWN", "down"}) : S \in SUBSET (1..MaxInitId) },
        q \in 0..MaxInitId }

\* The stores a run of the script is started on: as Stores, with the old
\* rows' fields fixed (the run never reads them before the report).
RunStores ==
    {NoStore} \cup
    { [exists |-> TRUE, rows |-> t, seq |-> q] :
        t \in UNION { Tables(S, {"DOWN"}) : S \in SUBSET (1..MaxInitId) },
        q \in 0..MaxInitId }

\* A changed init_db: the table is dropped and created again.
init_db_recreate(d) == [exists |-> TRUE, rows |-> {}, seq |-> 0]

\* init_db: CREATE TABLE IF NOT EXISTS.
init_db(d) ==
    IF d.exists THEN d ELSE [exists |-> TRUE, rows |-> {}, seq |-> 0]

\* A changed NextId: the id is taken from the number of rows.
NextIdByCount(d) == Cardinality(d.rows) + 1

\* The id AUTOINCREMENT gives the next row: one more than the largest id the
\* table has ever held.
NextId(d) == Max(d.seq, SetMax(Ids(d.rows))) + 1

\* The error cur.execute(INSERT ...) raises, or "none": the table must exist
\* and the NOT NULL columns must be given a value.  cpu, memory and disk are
\* always bound to the floats psutil returned.
InsertError(d, e) ==
    IF ~d.exists THEN "OperationalError"
    ELSE IF e.timestamp = NULL \/ e.ping_status = NULL THEN "IntegrityError"
    ELSE "none"

\* The row cur.execute(INSERT ...) leaves pending in the connection.
Pending(d, e) == Row(NextId(d), e)

\* A changed Commit: conn.commit() is left out, so the pending row is lost
\* when the connection is closed.
CommitLeftOut(d, r) == d

\* conn.commit(): the pending row becomes durable, in one step.
Commit(d, r) == [d EXCEPT !.rows = @ \cup {r}, !.seq = Max(@, r.id)]

\* ORDER BY id DESC.
RECURSIVE OrderByIdDesc(_)
OrderByIdDesc(rows) ==
    IF rows = {} THEN <<>>
    ELSE LET top == CHOOSE r \in rows : \A x \in rows : x.id <= r.id
         IN  <<top>> \o OrderByIdDesc(rows \ {top})

\* LIMIT ?: SQLite applies no upper bound when the value is negative.
Limit(s, k) == IF k < 0 THEN s ELSE SubSeq(s, 1, Min(k, Len(s)))

\* ORDER BY id ASC.
RECURSIVE OrderByIdAsc(_)
OrderByIdAsc(rows) ==
    IF rows = {} THEN <<>>
    ELSE LET low == CHOOSE r \in rows : \A x \in rows : r.id <= x.id
         IN  <<low>> \o OrderByIdAsc(rows \ {low})

\* A changed QueryRecent: the rows are taken in ascending order of id.
QueryRecentAsc(d, k) == Limit(OrderByIdAsc(d.rows), k)

\* The SELECT of show_last_logs.
QueryRecent(d, k) == Limit(OrderByIdDesc(d.rows), k)

\* A changed QueryFailed: every row that is not UP.
QueryNotUp(d) == OrderByIdDesc({ r \in d.rows : r.ping_status # "UP" })

\* The SELECT of show_failed_pings.
QueryFailed(d) == OrderByIdDesc({ r \in d.rows : r.ping_status = "DOWN" })

(***************************************************************************)
(* Exceptions.  KeyboardInterrupt derives from BaseException only; all     *)
(* the others derive from Exception.                                       *)
(***************************************************************************)
ExceptionSubclasses ==
    {"CalledProcessError", "TimeoutExpired", "FileNotFoundError",
     "OperationalError", "IntegrityError", "PsutilError"}

StorageErrors == {"OperationalError", "IntegrityError"}

ProbeErrors == {"CalledProcessError", "TimeoutExpired", "FileNotFoundError"}

\* What subprocess.run(cmd, timeout=..., check=True) raises.
RunPing(outcome) ==
    CASE outcome = "exit0"   -> "none"
      [] outcome = "nonzero" -> "CalledProcessError"
      [] outcome = "timeout" -> "TimeoutExpired"
      [] outcome = "missing" -> "FileNotFoundError"

\* A changed PingCatches: 'except subprocess.CalledProcessError'.
PingCatchesExitCodeOnly(e) == e = "CalledProcessError"

\* A changed PingCatches: a bare 'except:'.
PingCatchesAll(e) == TRUE

\* 'except Exception' in ping_status.
PingCatches(e) == e \in ExceptionSubclasses

\* A changed MainCatches: 'except BaseException' around main().
MainCatchesAll(e) == TRUE

\* 'except KeyboardInterrupt' around main().
MainCatches(e) == e = "KeyboardInterrupt"

\* The frame whose handler takes an exception raised at position loc.
Handler(loc, e) ==
    IF loc = "ping_status" /\ PingCatches(e) THEN "ping_status"
    ELSE IF MainCatches(e) THEN "__main__"
    ELSE "uncaught"

(***************************************************************************)
(* Lines written to standard output.                                       *)
(***************************************************************************)
LineInit == [kind |-> "Initializing database..."]
LineCollect(n) == [kind |-> "Collecting", n |-> n]
LineLogged(k, n, e) == [kind |-> "Logged", k |-> k, n |-> n, entry |-> e]
LineHeader(k) == [kind |-> "=== Last", limit |-> k]
LineNoData == [kind |-> "(No data)"]
LineRow(r) == [kind |-> "row", row |-> r]
Notice == [kind |-> "Interrupted by user. Exiting"]

LineFailedHeader == [kind |-> "=== Failed pings (DOWN) ==="]
LineNone == [kind |-> "(None)"]

\* What show_last_logs prints for the rows it fetched.
ReportLines(rows, k) ==
    <<LineHeader(k)>> \o
    (IF rows = <<>> THEN <<LineNoData>>
     ELSE [j \in 1..Len(rows) |-> LineRow(rows[j])])

\* What show_failed_pings prints for the rows it fetched.
FailedLines(rows) ==
    <<LineFailedHeader>> \o
    (IF rows = <<>> THEN <<LineNone>>
     ELSE [j \in 1..Len(rows) |-> LineRow(rows[j])])

\* The number of row lines printed so far.
RowsPrinted(o) == Cardinality({ j \in 1..Len(o) : o[j].kind = "row" })

(***************************************************************************)
(* main(): the sampling loop.                                              *)
(***************************************************************************)
\* 'for i in range(SAMPLES)': the loop body runs for k when k < n.
LoopHas(k, n) == k < n

\* A changed NeedsSleep: time.sleep(INTERVAL_SEC) after every sample.
AlwaysSleeps(k, n) == TRUE

\* 'if i < SAMPLES - 1: time.sleep(INTERVAL_SEC)'.
NeedsSleep(k, n) == k < n - 1

\* Where control goes when the body of iteration k is over.
AfterIteration(k, n) ==
    IF LoopHas(k + 1, n) THEN "get_system_info" ELSE "show_last_logs"

\* The value 'for i in range(SAMPLES)' leaves in i when the body of iteration
\* k is over: the next index, or k itself when the range is exhausted.
NextIndex(k, n) == IF LoopHas(k + 1, n) THEN k + 1 ELSE k

MainPcs ==
    {"start", "init_db", "collect", "get_system_info", "ping_status",
     "insert_execute", "insert_commit", "insert_close", "progress", "sleep",
     "show_last_logs", "report_header", "report_rows", "report_return"}

\* The positions of show_last_logs as main() calls it.
ReportPcs == {"show_last_logs", "report_header", "report_rows", "report_return"}

SamplingPcs ==
    {"get_system_info", "ping_status", "insert_execute", "insert_commit",
     "insert_close", "progress"}

WaitingPcs == {"sleep"}

\* An exception e raised at position loc travels to the frame that handles
\* it: ping_status turns it into DOWN, the top level prints the notice and
\* ends, and anything else ends the process with a traceback.  A connection
\* dropped with a pending row rolls it back.
Unwind(loc, e) ==
    LET h == Handler(loc, e) IN
    /\ pc' = CASE h = "ping_status" -> "insert_execute"
               [] h = "__main__"    -> "interrupted"
               [] OTHER             -> "crashed"
    /\ entry' = IF h = "ping_status" THEN [entry EXCEPT !.ping_status = "DOWN"] ELSE entry
    /\ out' = IF h = "__main__" THEN Append(out, Notice) ELSE out
    /\ exc' = IF h = "ping_status" THEN exc ELSE e
    /\ raisedAt' = IF h = "ping_status" THEN raisedAt ELSE loc
    /\ txn' = IF h = "ping_status" THEN txn ELSE NoTxn

Init ==
    /\ db \in RunStores
    /\ db0 = db
    /\ samples \in 0..SAMPLES
    /\ pc = "start"
    /\ i = 0
    /\ entry = NoEntry
    /\ txn = NoTxn
    /\ out = <<>>
    /\ trace = <<>>
    /\ inserted = <<>>
    /\ returned = 0
    /\ probe = "none"
    /\ exc = "none"
    /\ raisedAt = "none"
    /\ sigints = 0
    /\ result = NoResult

\* print("Initializing database...")
Start ==
    /\ pc = "start"
    /\ out' = Append(out, LineInit)
    /\ pc' = "init_db"
    /\ UNCHANGED <<db, db0, samples, i, entry, txn, trace, inserted, returned,
                   probe, exc, raisedAt, sigints, result>>

\* init_db()
call_init_db ==
    /\ pc = "init_db"
    /\ db' = init_db(db)
    /\ trace' = Append(trace, "init_db")
    /\ pc' = "collect"
    /\ UNCHANGED <<db0, samples, i, entry, txn, out, inserted, returned,
                   probe, exc, raisedAt, sigints, result>>

\* print("Collecting ...") and the first test of the loop
Collect ==
    /\ pc = "collect"
    /\ out' = Append(out, LineCollect(samples))
    /\ i' = 0
    /\ pc' = IF LoopHas(0, samples) THEN "get_system_info" ELSE "show_last_logs"
    /\ UNCHANGED <<db, db0, samples, entry, txn, trace, inserted, returned,
                   probe, exc, raisedAt, sigints, result>>

\* get_system_info(), up to the call of ping_status: the clock and psutil
get_system_info ==
    /\ pc = "get_system_info"
    /\ \E o \in Observations :
         entry' = [timestamp |-> o.timestamp, cpu |-> o.cpu, memory |-> o.memory,
                   disk |-> o.disk, ping_status |-> NULL]
    /\ trace' = Append(trace, "get_system_info")
    /\ pc' = "ping_status"
    /\ UNCHANGED <<db, db0, samples, i, txn, out, inserted, returned,
                   probe, exc, raisedAt, sigints, result>>

\* psutil cannot answer: the error leaves get_system_info
PlatformFault ==
    /\ pc = "get_system_info"
    /\ Unwind(pc, "PsutilError")
    /\ trace' = Append(trace, "get_system_info")
    /\ UNCHANGED <<db, db0, samples, i, inserted, returned, probe, sigints, result>>

\* ping_status(): one subprocess.run, and the return to get_system_info
call_ping_status ==
    /\ pc = "ping_status"
    /\ \E o \in ProbeOutcomes :
         /\ probe' = o
         /\ IF RunPing(o) = "none"
            THEN /\ entry' = [entry EXCEPT !.ping_status = "UP"]
                 /\ pc' = "insert_execute"
                 /\ UNCHANGED <<out, exc, raisedAt, txn>>
            ELSE Unwind(pc, RunPing(o))
    /\ trace' = Append(trace, "ping_status")
    /\ UNCHANGED <<db, db0, samples, i, inserted, returned, sigints, result>>

\* insert_log(entry): connect and cur.execute(INSERT ...)
insert_log_execute ==
    /\ pc = "insert_execute"
    /\ IF InsertError(db, entry) = "none"
       THEN /\ txn' = <<Pending(db, entry)>>
            /\ pc' = "insert_commit"
            /\ UNCHANGED <<entry, out, exc, raisedAt>>
       ELSE Unwind(pc, InsertError(db, entry))
    /\ trace' = Append(trace, "insert_log")
    /\ UNCHANGED <<db, db0, samples, i, inserted, returned, probe, sigints, result>>

\* insert_log(entry): conn.commit()
insert_log_commit ==
    /\ pc = "insert_commit"
    /\ db' = Commit(db, txn[1])
    /\ inserted' = Append(inserted, txn[1].id)
    /\ txn' = NoTxn
    /\ pc' = "insert_close"
    /\ UNCHANGED <<db0, samples, i, entry, out, trace, returned, probe, exc,
                   raisedAt, sigints, result>>

\* insert_log(entry): conn.close() and the return to main
insert_log_return ==
    /\ pc = "insert_close"
    /\ returned' = returned + 1
    /\ pc' = "progress"
    /\ UNCHANGED <<db, db0, samples, i, entry, txn, out, trace, inserted,
                   probe, exc, raisedAt, sigints, result>>

\* print("[i+1/SAMPLES] Logged at ..."), then the sleep test
Progress ==
    /\ pc = "progress"
    /\ out' = Append(out, LineLogged(i + 1, samples, entry))
    /\ trace' = Append(trace, "progress")
    /\ IF NeedsSleep(i, samples)
       THEN pc' = "sleep" /\ i' = i
       ELSE pc' = AfterIteration(i, samples) /\ i' = NextIndex(i, samples)
    /\ UNCHANGED <<db, db0, samples, entry, txn, inserted, returned, probe,
                   exc, raisedAt, sigints, result>>

\* time.sleep(INTERVAL_SEC) runs to its end, then the next test of the loop
Sleep ==
    /\ pc = "sleep"
    /\ trace' = Append(trace, "sleep")
    /\ pc' = AfterIteration(i, samples)
    /\ i' = NextIndex(i, samples)
    /\ UNCHANGED <<db, db0, samples, entry, txn, out, inserted, returned,
                   probe, exc, raisedAt, sigints, result>>

\* main() calls show_last_logs(limit=5): connect, the SELECT, fetchall and
\* close
show_last_logs_select ==
    /\ pc = "show_last_logs"
    /\ trace' = Append(trace, "show_last_logs")
    /\ result' = [op |-> "show_last_logs", limit |-> ReportLimit,
                  rows |-> QueryRecent(db, ReportLimit), error |-> "none",
                  before |-> db, prev |-> result.op]
    /\ pc' = "report_header"
    /\ UNCHANGED <<db, db0, samples, i, entry, txn, out, inserted,
                   returned, probe, exc, raisedAt, sigints>>

\* show_last_logs: print("=== Last", limit, "entries ===")
show_last_logs_header ==
    /\ pc = "report_header"
    /\ out' = Append(out, LineHeader(result.limit))
    /\ pc' = "report_rows"
    /\ UNCHANGED <<db, db0, samples, i, entry, txn, trace, inserted, returned,
                   probe, exc, raisedAt, sigints, result>>

\* show_last_logs: print("(No data)"), or the print of the next row
show_last_logs_rows ==
    /\ pc = "report_rows"
    /\ IF result.rows = <<>>
       THEN /\ out' = Append(out, LineNoData)
            /\ pc' = "report_return"
       ELSE /\ out' = Append(out, LineRow(result.rows[RowsPrinted(out) + 1]))
            /\ pc' = IF RowsPrinted(out) + 1 = Len(result.rows)
                     THEN "report_return" ELSE "report_rows"
    /\ UNCHANGED <<db, db0, samples, i, entry, txn, trace, inserted, returned,
                   probe, exc, raisedAt, sigints, result>>

\* show_last_logs returns, then main returns
show_last_logs_return ==
    /\ pc = "report_return"
    /\ pc' = "done"
    /\ UNCHANGED <<db, db0, samples, i, entry, txn, out, trace, inserted,
                   returned, probe, exc, raisedAt, sigints, result>>

\* sqlite3 raises: the file is unwritable or locked
StorageFault ==
    /\ pc \in {"init_db", "insert_execute", "insert_commit", "show_last_logs"}
    /\ Unwind(pc, "OperationalError")
    /\ trace' = IF pc \in {"insert_commit"} THEN trace
                ELSE Append(trace, IF pc = "insert_execute" THEN "insert_log" ELSE pc)
    /\ UNCHANGED <<db, db0, samples, i, inserted, returned, probe, sigints, result>>

\* A KeyboardInterrupt is raised at the current position of main()
Interrupt ==
    /\ pc \in MainPcs
    /\ sigints' = sigints + 1
    /\ Unwind(pc, "KeyboardInterrupt")
    /\ UNCHANGED <<db, db0, samples, i, trace, inserted, returned, probe, result>>

Next ==
    \/ Start
    \/ call_init_db
    \/ Collect
    \/ get_system_info
    \/ PlatformFault
    \/ call_ping_status
    \/ insert_log_execute
    \/ insert_log_commit
    \/ insert_log_return
    \/ Progress
    \/ Sleep
    \/ show_last_logs_select
    \/ show_last_logs_header
    \/ show_last_logs_rows
    \/ show_last_logs_return
    \/ StorageFault
    \/ Interrupt

Spec == Init /\ [][Next]_vars

(***************************************************************************)
(* The functions of the module called one at a time, in any order, on any  *)
(* store, at most MaxApiCalls times.  Each call runs to its end; result    *)
(* records the call, out what the calls have printed.                      *)
(***************************************************************************)
Limits == (0 - MaxLimit)..MaxLimit

ApiEntries ==
    { [timestamp |-> "2025-01-01 00:00:00", cpu |-> 0, memory |-> 50,
       disk |-> 100, ping_status |-> p] : p \in {"UP", "DOWN", NULL} }

ApiInit ==
    /\ db \in Stores
    /\ db0 = db
    /\ samples = 0
    /\ pc = "api"
    /\ i = 0
    /\ entry = NoEntry
    /\ txn = NoTxn
    /\ out = <<>>
    /\ trace = <<>>
    /\ inserted = <<>>
    /\ returned = 0
    /\ probe = "none"
    /\ exc = "none"
    /\ raisedAt = "none"
    /\ sigints = 0
    /\ result = NoResult

ApiUnchanged ==
    UNCHANGED <<db0, samples, pc, i, entry, txn, inserted, returned,
                probe, exc, raisedAt, sigints>>

\* init_db()
ApiInitDb ==
    /\ pc = "api"
    /\ Len(trace) < MaxApiCalls
    /\ db' = init_db(db)
    /\ result' = [op |-> "init_db", limit |-> 0, rows |-> <<>>, error |-> "none",
                  before |-> db, prev |-> result.op]
    /\ trace' = Append(trace, "init_db")
    /\ UNCHANGED out
    /\ ApiUnchanged

\* insert_log(e)
ApiInsertLog ==
    /\ pc = "api"
    /\ Len(trace) < MaxApiCalls
    /\ \E e \in ApiEntries :
         /\ db' = IF InsertError(db, e) = "none" THEN Commit(db, Pending(db, e)) ELSE db
         /\ result' = [op |-> "insert_log", limit |-> 0,
                       rows |-> IF InsertError(db, e) = "none"
                                THEN <<Pending(db, e)>> ELSE <<>>,
                       error |-> InsertError(db, e), before |-> db,
                       prev |-> result.op]
    /\ trace' = Append(trace, "insert_log")
    /\ UNCHANGED out
    /\ ApiUnchanged

\* show_last_logs(k): the rows fetched and the lines printed; the SELECT
\* fails, before anything is printed, when there is no table
ApiShowLastLogs ==
    /\ pc = "api"
    /\ Len(trace) < MaxApiCalls
    /\ \E k \in Limits :
         /\ result' = [op |-> "show_last_logs", limit |-> k,
                       rows |-> IF db.exists THEN QueryRecent(db, k) ELSE <<>>,
                       error |-> IF db.exists THEN "none" ELSE "OperationalError",
                       before |-> db, prev |-> result.op]
         /\ out' = IF db.exists THEN out \o ReportLines(QueryRecent(db, k), k) ELSE out
    /\ trace' = Append(trace, "show_last_logs")
    /\ UNCHANGED db
    /\ ApiUnchanged

\* show_failed_pings(): the rows fetched and the lines printed
ApiShowFailedPings ==
    /\ pc = "api"
    /\ Len(trace) < MaxApiCalls
    /\ result' = [op |-> "show_failed_pings", limit |-> 0,
                  rows |-> IF db.exists THEN QueryFailed(db) ELSE <<>>,
                  error |-> IF db.exists THEN "none" ELSE "OperationalError",
                  before |-> db, prev |-> result.op]
    /\ out' = IF db.exists THEN out \o FailedLines(QueryFailed(db)) ELSE out
    /\ trace' = Append(trace, "show_failed_pings")
    /\ UNCHANGED db
    /\ ApiUnchanged

ApiNext ==
    \/ ApiInitDb
    \/ ApiInsertLog
    \/ ApiShowLastLogs
    \/ ApiShowFailedPings

ApiSpec == ApiInit /\ [][ApiNext]_vars

(***************************************************************************)
(* Properties.                                                             *)
(***************************************************************************)
NewRows == db.rows \ db0.rows

\* A stored row with all five fields populated.
Complete(r) ==
    /\ r.timestamp # NULL
    /\ r.cpu \in 0..100
    /\ r.memory \in 0..100
    /\ r.disk \in 0..100
    /\ r.ping_status # NULL

StrictlyIncreasing(s) == \A j, k \in 1..Len(s) : j < k => s[j] < s[k]

\* The sampling loop has run to its end, without interrupt or error.
LoopEnded ==
    \/ pc \in ReportPcs \cup {"done"}
    \/ pc \in {"interrupted", "crashed"} /\ raisedAt \in ReportPcs

\* C1: a run that reaches the end of the sampling loop without interrupt or
\* error has added exactly N rows, for every N >= 0 and every initial store;
\* their ids are strictly increasing in insertion order, each greater than
\* every id the store held before, and each row has all five fields.
C1_ExactlyNNewRows ==
    LoopEnded =>
        /\ Len(inserted) = samples
        /\ Cardinality(NewRows) = samples
        /\ Ids(NewRows) = { inserted[j] : j \in 1..Len(inserted) }
        /\ Ids(NewRows) \cap Ids(db0.rows) = {}
        /\ db0.rows \subseteq db.rows
        /\ Cardinality(Ids(db.rows)) = Cardinality(db.rows)
        /\ StrictlyIncreasing(inserted)
        /\ \A id \in Ids(NewRows) : \A old \in Ids(db0.rows) : id > old
        /\ \A r \in NewRows : Complete(r)

\* A full run of SAMPLES samples on a store that already held rows, with a
\* gap in the ids, has ended.
C1_Witness ==
    /\ pc = "done"
    /\ samples = SAMPLES
    /\ Len(inserted) = SAMPLES
    /\ Ids(db0.rows) = {MaxInitId}

Range(s) == { s[j] : j \in 1..Len(s) }

DescendingIds(s) == \A j, k \in 1..Len(s) : j < k => s[j].id > s[k].id

\* The rows of s are rows of the table, and no row left out has a larger id.
LargestIds(s, rows) ==
    /\ Range(s) \subseteq rows
    /\ \A r \in Range(s) : \A x \in rows \ Range(s) : x.id < r.id

RecentQueryDone == result.op = "show_last_logs" /\ result.error = "none"

\* C2 as stated: for every store content and every k, show_last_logs(k)
\* fetches rows in strictly descending id order, exactly min(k, total_rows)
\* of them, and they are the rows with the largest ids.
C2_AsStated ==
    RecentQueryDone =>
        /\ DescendingIds(result.rows)
        /\ Len(result.rows) = Min(result.limit, Cardinality(result.before.rows))
        /\ LargestIds(result.rows, result.before.rows)

\* C2, amended: for every store content and every k the rows fetched are in
\* strictly descending id order and are the rows with the largest ids; for
\* every k >= 0 there are exactly min(k, total_rows) of them.
C2_RecentRows ==
    RecentQueryDone =>
        /\ DescendingIds(result.rows)
        /\ LargestIds(result.rows, result.before.rows)
        /\ result.limit >= 0 =>
             Len(result.rows) = Min(result.limit, Cardinality(result.before.rows))

\* A limit smaller than the number of rows has cut the result, and one larger
\* than it would not have.
C2_Witness ==
    /\ RecentQueryDone
    /\ result.limit = 2
    /\ Cardinality(result.before.rows) = 3
    /\ Len(result.rows) = 2

\* C3: show_last_logs with limit <= 0 on any table, or with any limit on an
\* empty table, fetches no row and raises no error.
C3_NonPositiveLimitIsEmpty ==
    (/\ result.op = "show_last_logs"
     /\ result.before.exists
     /\ result.limit <= 0 \/ result.before.rows = {})
    => result.rows = <<>> /\ result.error = "none"

\* C4: show_failed_pings fetches exactly the rows whose ping_status equals
\* 'DOWN', each once, in descending id order; they are among the rows the
\* recent-rows query fetches when its limit is the number of rows.
C4_FailedPings ==
    (result.op = "show_failed_pings" /\ result.error = "none") =>
        /\ Range(result.rows) = { r \in result.before.rows : r.ping_status = "DOWN" }
        /\ Len(result.rows) = Cardinality(Range(result.rows))
        /\ DescendingIds(result.rows)
        /\ Range(result.rows) \subseteq
             Range(QueryRecent(result.before, Cardinality(result.before.rows)))
        /\ db = result.before

\* The query has run on a table holding a DOWN row, an UP row and a row
\* whose status differs from DOWN by case only.
C4_Witness ==
    /\ result.op = "show_failed_pings"
    /\ result.error = "none"
    /\ Len(result.rows) >= 1
    /\ \E r \in result.before.rows : r.ping_status = "down"
    /\ \E r \in result.before.rows : r.ping_status = "UP"

\* C5: init_db on a store that has the table leaves the table and every row
\* as they were; a call that follows another has no effect, and no call
\* loses a row.
C5_InitDbIdempotent ==
    result.op = "init_db" =>
        /\ db.exists
        /\ db.rows = result.before.rows
        /\ result.before.exists => db = result.before
        /\ result.prev = "init_db" => db = result.before
        /\ init_db(db) = db

\* init_db has been called twice in succession on a table that holds rows.
C5_Witness ==
    /\ result.op = "init_db"
    /\ result.prev = "init_db"
    /\ result.before.rows # {}

Count(s, x) == Cardinality({ j \in 1..Len(s) : s[j] = x })

Printed(kind) == \E j \in 1..Len(out) : out[j].kind = kind

InsertPcs == {"insert_execute", "insert_commit", "insert_close"}

\* The run was interrupted between the insert of one sample and the insert
\* of the next: during the wait, the metric read or the probe.
InterruptedBetweenInserts ==
    pc = "interrupted" /\ raisedAt \in {"sleep", "get_system_info", "ping_status"}

\* The number of samples whose insert came before position p of iteration i.
SamplesBefore(p) == IF p = "sleep" THEN i + 1 ELSE i

\* C6 as stated: a run interrupted between the inserts of samples i and i+1
\* holds exactly i new rows, each complete; in every reachable state the
\* number of new rows equals the number of inserts that have returned.
C6_AsStated ==
    /\ InterruptedBetweenInserts => Cardinality(NewRows) = SamplesBefore(raisedAt)
    /\ \A r \in NewRows : Complete(r)
    /\ Cardinality(NewRows) = returned

\* C6, amended: a run interrupted between the inserts of samples i and i+1
\* holds exactly i new rows, each complete; in every reachable state the
\* number of new rows is the number of commits made, a pending row is not
\* in the store, and the number of new rows equals the number of inserts
\* that have returned except between the commit of an insert and its
\* return (or in a run interrupted there), where it is one more.
C6_WholeRows ==
    /\ InterruptedBetweenInserts =>
         /\ Cardinality(NewRows) = SamplesBefore(raisedAt)
         /\ Cardinality(NewRows) = returned
    /\ \A r \in NewRows : Complete(r)
    /\ Cardinality(NewRows) = Len(inserted)
    /\ txn # NoTxn => txn[1] \notin db.rows
    /\ IF pc = "insert_close" \/ (pc = "interrupted" /\ raisedAt = "insert_close")
       THEN Cardinality(NewRows) = returned + 1
       ELSE Cardinality(NewRows) = returned

\* The interrupt came during the wait after the second sample.
C6_Witness ==
    /\ pc = "interrupted"
    /\ raisedAt = "sleep"
    /\ i = 1
    /\ Cardinality(NewRows) = 2
    /\ db0.rows # {}

\* C7: ping_status returns DOWN, and raises nothing, when the ping times
\* out, exits with a non-zero code or cannot be started; it returns UP only
\* when the ping exits with code 0; every row the loop stores has
\* ping_status UP or DOWN.
C7_ProbeNeverRaises ==
    /\ pc \in InsertPcs \cup {"progress"} =>
         entry.ping_status = IF probe = "exit0" THEN "UP" ELSE "DOWN"
    /\ exc \notin ProbeErrors
    /\ \A r \in NewRows : r.ping_status \in {"UP", "DOWN"}

\* A row with DOWN has been stored after the ping timed out.
C7_Witness ==
    /\ pc = "insert_close"
    /\ probe = "timeout"
    /\ \E r \in NewRows : r.id = inserted[Len(inserted)] /\ r.ping_status = "DOWN"

\* C8: a storage error during the insert of a sample reaches the top level
\* and ends the run: the rows committed earlier stay as they were, nothing
\* is printed, no later sample is taken or inserted, no report is made and
\* the insert is not tried again.
C8_StorageErrorAborts ==
    /\ [][ (pc \in InsertPcs /\ exc = "none" /\ exc' \in StorageErrors) =>
             /\ pc' = "crashed"
             /\ raisedAt' = pc
             /\ db' = db
             /\ out' = out
             /\ inserted' = inserted
             /\ returned' = returned ]_vars
    /\ [][ pc = "crashed" => UNCHANGED vars ]_vars
    /\ [](pc = "crashed" /\ raisedAt \in InsertPcs =>
             /\ exc \in StorageErrors
             /\ Cardinality(NewRows) = i
             /\ db0.rows \subseteq db.rows
             /\ Count(trace, "get_system_info") = i + 1
             /\ Count(trace, "insert_log") = i + 1
             /\ Count(trace, "show_last_logs") = 0
             /\ ~Printed("=== Last")
             /\ ~Printed(Notice.kind))

\* The commit of the third sample failed.
C8_Witness ==
    /\ pc = "crashed"
    /\ exc = "OperationalError"
    /\ raisedAt = "insert_commit"
    /\ i = 2
    /\ Cardinality(NewRows) = 2

\* C9: an interrupt arriving while a sample is taken or during the wait
\* ends the run in the interrupted state: the notice is printed, the
\* process ends without an exception, the rows stay as they were, no later
\* sample is taken or inserted and no report is made.
C9_InterruptEndsRun ==
    /\ [][ (pc \in SamplingPcs \cup WaitingPcs /\ sigints' = sigints + 1) =>
             /\ pc' = "interrupted"
             /\ exc' = "KeyboardInterrupt"
             /\ raisedAt' = pc
             /\ out' = Append(out, Notice)
             /\ db' = db
             /\ trace' = trace
             /\ inserted' = inserted
             /\ result' = result ]_vars
    /\ [][ pc = "interrupted" => UNCHANGED vars ]_vars
    /\ [](pc = "interrupted" =>
             /\ raisedAt \in SamplingPcs \cup WaitingPcs =>
                  /\ Count(trace, "show_last_logs") = 0
                  /\ ~Printed("=== Last")
                  /\ result = NoResult
             /\ out[Len(out)] = Notice
             /\ Count(out, Notice) = 1
             /\ db0.rows \subseteq db.rows)

\* The interrupt came during the probe of the second sample.
C9_Witness ==
    /\ pc = "interrupted"
    /\ raisedAt = "ping_status"
    /\ sigints = 1
    /\ i = 1
    /\ Len(inserted) = 1

IsPrefix(s, t) == Len(s) <= Len(t) /\ SubSeq(t, 1, Len(s)) = s

\* The calls of samples j..n: a wait follows sample j exactly when j < n.
RECURSIVE ExpectedSamples(_, _)
ExpectedSamples(j, n) ==
    IF j > n THEN <<>>
    ELSE <<"get_system_info", "ping_status", "insert_log", "progress">>
         \o (IF j < n THEN <<"sleep">> ELSE <<>>)
         \o ExpectedSamples(j + 1, n)

IsSuffix(s, t) == Len(s) <= Len(t) /\ SubSeq(t, Len(t) - Len(s) + 1, Len(t)) = s

\* The positions at which main() has called show_last_logs, with no error.
ReportedPcs == {"report_header", "report_rows", "report_return", "done"}

ExpectedTrace(n) == <<"init_db">> \o ExpectedSamples(1, n) \o <<"show_last_logs">>

\* C10: in a run without interrupt or error init_db is called once, before
\* any insert; each of the N samples is one metric read with one probe, then
\* its insert, then its progress line; a wait follows sample i exactly when
\* i < N; the report is made once, after the N-th insert has committed, and
\* the run is then done.
C10_StepOrder ==
    (exc = "none" /\ sigints = 0) =>
        /\ IsPrefix(trace, ExpectedTrace(samples))
        /\ pc \in ReportedPcs <=> trace = ExpectedTrace(samples)
        /\ pc = "done" =>
             /\ Count(trace, "sleep") = Max(samples - 1, 0)
             /\ Count(trace, "init_db") = 1
             /\ Count(trace, "show_last_logs") = 1
             /\ IsSuffix(ReportLines(result.rows, ReportLimit), out)
             /\ result.rows = QueryRecent(db, ReportLimit)
        /\ pc \in ReportPcs \cup {"done"} =>
             Len(inserted) = samples /\ returned = samples
        /\ Printed("=== Last") =>
             /\ pc \in {"report_rows", "report_return", "done"}
             /\ Cardinality({ j \in 1..Len(out) : out[j].kind = "=== Last" }) = 1
        /\ Count(trace, "progress") = Cardinality({ j \in 1..Len(out) : out[j].kind = "Logged" })

\* A full run of SAMPLES samples is done.
C10_Witness ==
    /\ pc = "done"
    /\ samples = SAMPLES
    /\ Count(trace, "sleep") = SAMPLES - 1
    /\ Printed("row")

====
